---- MODULE Spec2Model ----
(***************************************************************************)
(* PCI interrupt routing of kernel_riscv (src/kernel/kernel_riscv/src/     *)
(* pci.rs): PciAccess::new building the legacy remapping from the device   *)
(* tree, configure_legacy / configure_msi / configure_msix registering     *)
(* events in INTERRUPT_ROUTING, and pci_interrupt_handler dispatching a    *)
(* vector.  One task context runs new and then the configure_* calls, one  *)
(* statement per step; the handler runs as an interrupt, either on the     *)
(* task's own hart (it then preempts the task until it returns) or on      *)
(* another hart (it then runs in parallel with the task).                  *)
(***************************************************************************)
EXTENDS Integers, Sequences, FiniteSets, TLC

VARIABLES
    fdt,                        \* the device tree handed to PciAccess::new
    tpc,                        \* position of the task context
    map_index,                  \* position of `for mapping in interrupt_map`
    address, pin, mapped_interrupt,   \* locals of the loop body of new
    legacy_interrupt_remapping, \* PciAccess.legacy_interrupt_remapping
    INTERRUPT_ROUTING,          \* the BTreeMap inside the static Spinlock
    routing_before,             \* history: the map before its latest mutation
    lock,                       \* contexts inside the Spinlock's critical section
    handlers,                   \* vector handlers registered with crate::interrupts
    next_event,                 \* number of Event::new() calls so far, plus one
    call,                       \* arguments of the configure_* call in progress
    event,                      \* local `event` of that call
    remapped_interrupt,         \* local of configure_legacy
    returned,                   \* events returned to drivers, in order
    panicked,                   \* which expect/unwrap/panic! fired, or "no"
    msi,                        \* the function's MSI capability registers
    msix,                       \* the function's MSI-X capability registers
    table_base_phys,            \* local of configure_msix
    msix_table,                 \* volatile stores of the configure_msix call in progress
    hpc,                        \* position of pci_interrupt_handler
    hart,                       \* where the handler runs: "same" or "other"
    number,                     \* argument of pci_interrupt_handler
    events,                     \* the handler's `events` (what routing.get gave)
    event_index,                \* position of `for event in events`
    signalled,                  \* events signalled by the current dispatch
    entry_state,                \* history: the state a configure_* call was entered in
    size,                       \* PciAccess.size, the size of the ECAM window
    accesses                    \* the latest ConfigRegionAccess reads and writes

vars == <<fdt, tpc, map_index, address, pin, mapped_interrupt,
          legacy_interrupt_remapping, INTERRUPT_ROUTING, routing_before, lock,
          handlers, next_event, call, event, remapped_interrupt, returned, panicked,
          msi, msix, table_base_phys, msix_table,
          hpc, hart, number, events, event_index, signalled,
          entry_state, size, accesses>>

new_locals == <<map_index, address, pin, mapped_interrupt>>

call_vars == <<next_event, call, event, remapped_interrupt, returned>>

device_vars == <<msi, msix, table_base_phys, msix_table>>

handler_vars == <<hpc, hart, number, events, event_index, signalled>>

ecam_vars == <<size, accesses>>

(***************************************************************************)
(* Bounds of the model.                                                    *)
(***************************************************************************)
MaxRecords == 2     \* records in the interrupt-map property
MaxCalls == 2       \* configure_* calls made by drivers
MaxAccesses == 2    \* configuration-space accesses kept in the log

(***************************************************************************)
(* Integer helpers: u32 bit operations as the code applies them.           *)
(***************************************************************************)
RECURSIVE BitAnd(_, _)
BitAnd(a, b) ==
    IF a = 0 \/ b = 0 THEN 0
    ELSE (a % 2) * (b % 2) + 2 * BitAnd(a \div 2, b \div 2)

RECURSIVE BitOr(_, _)
BitOr(a, b) ==
    IF a = 0 THEN b
    ELSE IF b = 0 THEN a
    ELSE (IF a % 2 = 1 \/ b % 2 = 1 THEN 1 ELSE 0) + 2 * BitOr(a \div 2, b \div 2)

get_bits(x, lo, hi) == (x \div (2 ^ lo)) % (2 ^ (hi - lo))

as_u8(x) == x % 256

as_u16(x) == x % 65536

NoEvent == 0

(***************************************************************************)
(* Addresses of 32 and 64 bits, held as a 4 KiB page number and an offset  *)
(* in the page: the value is page * 4096 + offset.  A u32 has pages below  *)
(* 2^20.                                                                   *)
(***************************************************************************)
PhysAddress(page, offset) == [page |-> page, offset |-> offset]

\* a + b, exact
AddressAdd(a, b) ==
    [page |-> a.page + b.page + ((a.offset + b.offset) \div 4096),
     offset |-> (a.offset + b.offset) % 4096]

OverflowsU32(a) == a.page >= 1048576

\* the low 32 bits of a
WrappingU32(a) == [page |-> a.page % 1048576, offset |-> a.offset]

(***************************************************************************)
(* BTreeMap operations.                                                    *)
(***************************************************************************)
EmptyMap == << >>

\* Mutant: the map is rebuilt around the inserted key.
BTreeInsertRebuilt(m, k, v) == [x \in {k} |-> v]

BTreeInsert(m, k, v) ==
    [x \in (DOMAIN m) \cup {k} |-> IF x = k THEN v ELSE m[x]]

BTreeGet(m, k) ==
    IF k \in DOMAIN m THEN [some |-> TRUE, value |-> m[k]]
    ELSE [some |-> FALSE, value |-> << >>]

\* Mutant: the event is never pushed.
VecPushDropped(m, k, e) == m

VecPush(m, k, e) == [m EXCEPT ![k] = Append(@, e)]

(***************************************************************************)
(* The device tree.  A record of the interrupt map carries the high word   *)
(* of the child unit address, the child interrupt specifier and the parent *)
(* interrupt specifier (a u64, held as its two u32 halves).                *)
(***************************************************************************)
Mapping(child_hi, child_int, parent_hi, parent_lo) ==
    [child_unit_address_hi |-> child_hi,
     child_interrupt_specifier |-> child_int,
     parent_interrupt_specifier |-> [hi |-> parent_hi, lo |-> parent_lo]]

\* bus 0, device 3, function 0, pin 1 -> vector 0x2A
RecordA == Mapping(6144, 1, 42, 4)
\* bus 1, device 3, function 1, specifier 0x102 -> vector 2
RecordB == Mapping(71936, 258, 2, 4)
\* as RecordA with the address space bits 24.. set -> vector 3
RecordC == Mapping(33560576, 1, 3, 4)

Records == {RecordA, RecordB, RecordC}

\* interrupt-map-mask: device bits only and pin bits 0..2, or everything
Masks == {[address_mask_hi |-> 63488, interrupt_mask |-> 7],
          [address_mask_hi |-> 16777215, interrupt_mask |-> 65535]}

RECURSIVE SeqsUpTo(_, _)
SeqsUpTo(S, n) ==
    IF n = 0 THEN {<< >>}
    ELSE LET shorter == SeqsUpTo(S, n - 1)
         IN  shorter \cup {Append(s, x) : s \in shorter, x \in S}

\* The compatible strings new looks for.
PciHostTypes == {"pci-host-ecam-generic", "pci-host-cam-generic"}

\* The device tree as new reads it: the compatible strings of its nodes,
\* and of the first PCI host node whether the interrupt-map and
\* interrupt-map-mask properties are present, and their contents.
Fdt(compatible, has_map, has_mask, map, mask) ==
    [compatible |-> compatible,
     has_interrupt_map |-> has_map,
     has_interrupt_map_mask |-> has_mask,
     interrupt_map |-> map,
     interrupt_map_mask |-> mask]

AnyMask == [address_mask_hi |-> 63488, interrupt_mask |-> 7]

\* Trees with a complete PCI host node
CompleteFdts ==
    {Fdt({"pci-host-ecam-generic"}, TRUE, TRUE, map, mask) :
        map \in SeqsUpTo(Records, MaxRecords) \ {<< >>}, mask \in Masks}
    \cup {Fdt({"pci-host-cam-generic", "simple-bus"}, TRUE, TRUE, <<RecordA>>, AnyMask)}

\* Trees without a PCI host node, or with one that lacks a property
DefectiveFdts ==
    {Fdt({"virtio,mmio", "simple-bus"}, TRUE, TRUE, <<RecordA>>, AnyMask),
     Fdt({"pci-host-ecam-generic"}, FALSE, TRUE, << >>, AnyMask),
     Fdt({"pci-host-ecam-generic"}, TRUE, FALSE, <<RecordA>>, AnyMask),
     Fdt({"pci-host-ecam-generic"}, FALSE, FALSE, << >>, AnyMask)}

Fdts == CompleteFdts \cup DefectiveFdts

PciAddressNew(segment, bus, device, function) ==
    [segment |-> segment, bus |-> bus, device |-> device, function |-> function]

\* ecam_window.size of the reg property: 256 buses of 1 MiB
EcamSize == 268435456

\* Window sizes the reg property may give: one bus (1 MiB), 256 buses.
EcamSizes == {1048576, EcamSize}

\* What the capability of a function that has not been configured holds.
MsiAtReset == [message_address |-> 0, message_data |-> 0, enabled |-> FALSE]

MsixAtReset == [enabled |-> FALSE]

NotInCall == [op |-> "none"]

Init ==
    /\ fdt \in Fdts
    /\ tpc = "new_find"
    /\ map_index = 1
    /\ address = PciAddressNew(0, 0, 0, 0)
    /\ pin = 0
    /\ mapped_interrupt = 0
    /\ legacy_interrupt_remapping = EmptyMap
    /\ INTERRUPT_ROUTING = EmptyMap
    /\ routing_before = EmptyMap
    /\ lock = {}
    /\ handlers = << >>
    /\ next_event = 1
    /\ call = [op |-> "none"]
    /\ event = NoEvent
    /\ remapped_interrupt = 0
    /\ returned = << >>
    /\ panicked = "no"
    /\ msi = MsiAtReset
    /\ msix = MsixAtReset
    /\ table_base_phys = PhysAddress(0, 0)
    /\ msix_table = << >>
    /\ hpc = "idle"
    /\ hart = "other"
    /\ number = 0
    /\ events = << >>
    /\ event_index = 1
    /\ signalled = << >>
    /\ entry_state = NotInCall
    /\ size = EcamSize
    /\ accesses = << >>

(***************************************************************************)
(* The Spinlock around INTERRUPT_ROUTING: lock() spins until nobody is in  *)
(* the critical section; the guard leaves it when it is dropped.  A read   *)
(* of the map made while a writer is inside sees the entry as it is or     *)
(* with a slot that is not yet written.                                    *)
(***************************************************************************)
\* Mutant: lock() that does not wait for the critical section to be free.
TryLockNoWait(l) == TRUE

TryLock(l) == l = {}

Acquire(who) == TryLock(lock) /\ lock' = lock \cup {who}

Release(who) == lock' = lock \ {who}

RacingRead(m, k) ==
    {BTreeGet(m, k).value, Append(BTreeGet(m, k).value, NoEvent)}

\* The task context runs unless it has panicked or the handler has
\* interrupted it on its own hart and has not returned yet.
TaskRuns == panicked = "no" /\ ~(hpc # "idle" /\ hart = "same")

(***************************************************************************)
(* PciAccess::new: the loop over the interrupt map.                        *)
(***************************************************************************)
ChildAddressHi(mapping, mask) ==
    BitAnd(mapping.child_unit_address_hi, mask.address_mask_hi)

\* Mutant: the device field read one bit too high.
DecodeAddressMisplaced(mapping, mask) ==
    PciAddressNew(0,
                  as_u8(get_bits(ChildAddressHi(mapping, mask), 16, 24)),
                  as_u8(get_bits(ChildAddressHi(mapping, mask), 12, 16)),
                  as_u8(get_bits(ChildAddressHi(mapping, mask), 8, 11)))

DecodeAddress(mapping, mask) ==
    PciAddressNew(0,
                  as_u8(get_bits(ChildAddressHi(mapping, mask), 16, 24)),
                  as_u8(get_bits(ChildAddressHi(mapping, mask), 11, 16)),
                  as_u8(get_bits(ChildAddressHi(mapping, mask), 8, 11)))

DecodePin(mapping, mask) ==
    BitAnd(mapping.child_interrupt_specifier, mask.interrupt_mask)

\* get_bits(32..64) of the u64 specifier, as u32
DecodeMappedInterrupt(mapping) == mapping.parent_interrupt_specifier.hi

\* Is a node with these compatible strings a PCI host: every node is.
IsPciHostAnyNode(compatible) == TRUE

IsPciHost(compatible) == compatible \cap PciHostTypes # {}

\* fdt.all_nodes().filter(..).next()?: without a PCI host node new returns
\* None here.
NewFindNode ==
    /\ TaskRuns
    /\ tpc = "new_find"
    /\ tpc' = IF IsPciHost(fdt.compatible) THEN "new_interrupt_map" ELSE "returned_none"
    /\ UNCHANGED <<fdt, ecam_vars, entry_state, legacy_interrupt_remapping,
                   INTERRUPT_ROUTING, routing_before, lock, handlers, panicked>>
    /\ UNCHANGED <<new_locals, call_vars, device_vars, handler_vars>>

\* pci_node.interrupt_map().unwrap()
NewInterruptMap ==
    /\ TaskRuns
    /\ tpc = "new_interrupt_map"
    /\ IF fdt.has_interrupt_map
       THEN tpc' = "new_interrupt_map_mask" /\ UNCHANGED panicked
       ELSE tpc' = "panic" /\ panicked' = "unwrap on None: interrupt_map"
    /\ UNCHANGED <<fdt, ecam_vars, entry_state, legacy_interrupt_remapping,
                   INTERRUPT_ROUTING, routing_before, lock, handlers>>
    /\ UNCHANGED <<new_locals, call_vars, device_vars, handler_vars>>

\* pci_node.interrupt_map_mask().unwrap()
NewInterruptMapMask ==
    /\ TaskRuns
    /\ tpc = "new_interrupt_map_mask"
    /\ IF fdt.has_interrupt_map_mask
       THEN tpc' = "new_loop" /\ UNCHANGED panicked
       ELSE tpc' = "panic" /\ panicked' = "unwrap on None: interrupt_map_mask"
    /\ UNCHANGED <<fdt, ecam_vars, entry_state, legacy_interrupt_remapping,
                   INTERRUPT_ROUTING, routing_before, lock, handlers>>
    /\ UNCHANGED <<new_locals, call_vars, device_vars, handler_vars>>

NewLoop ==
    /\ TaskRuns
    /\ tpc = "new_loop"
    /\ map_index <= Len(fdt.interrupt_map)
    /\ LET mapping == fdt.interrupt_map[map_index]
       IN  /\ address' = DecodeAddress(mapping, fdt.interrupt_map_mask)
           /\ pin' = DecodePin(mapping, fdt.interrupt_map_mask)
           /\ mapped_interrupt' = DecodeMappedInterrupt(mapping)
           /\ handlers' = Append(handlers,
                  [kind |-> "wired", vector |-> mapping.parent_interrupt_specifier])
    /\ tpc' = "new_lock"
    /\ UNCHANGED <<fdt, ecam_vars, entry_state, map_index, legacy_interrupt_remapping, INTERRUPT_ROUTING, routing_before,
                   lock, panicked>>
    /\ UNCHANGED <<call_vars, device_vars, handler_vars>>

NewLock ==
    /\ TaskRuns
    /\ tpc = "new_lock"
    /\ Acquire("task")
    /\ tpc' = "new_insert"
    /\ UNCHANGED <<fdt, ecam_vars, entry_state, legacy_interrupt_remapping, INTERRUPT_ROUTING, routing_before, handlers,
                   panicked>>
    /\ UNCHANGED <<new_locals, call_vars, device_vars, handler_vars>>

\* Mutant: the vector is not pre-registered in the routing table.
NewInsertSkipped ==
    /\ TaskRuns
    /\ tpc = "new_insert"
    /\ Release("task")
    /\ tpc' = "new_remap"
    /\ UNCHANGED <<fdt, ecam_vars, entry_state, legacy_interrupt_remapping, INTERRUPT_ROUTING,
                   routing_before, handlers, panicked>>
    /\ UNCHANGED <<new_locals, call_vars, device_vars, handler_vars>>

NewInsert ==
    /\ TaskRuns
    /\ tpc = "new_insert"
    /\ INTERRUPT_ROUTING' = BTreeInsert(INTERRUPT_ROUTING, mapped_interrupt, << >>)
    /\ routing_before' = INTERRUPT_ROUTING
    /\ Release("task")
    /\ tpc' = "new_remap"
    /\ UNCHANGED <<fdt, ecam_vars, entry_state, legacy_interrupt_remapping, handlers, panicked>>
    /\ UNCHANGED <<new_locals, call_vars, device_vars, handler_vars>>

NewRemap ==
    /\ TaskRuns
    /\ tpc = "new_remap"
    /\ legacy_interrupt_remapping' =
           BTreeInsert(legacy_interrupt_remapping, <<address, as_u8(pin)>>,
                       mapped_interrupt)
    /\ map_index' = map_index + 1
    /\ tpc' = "new_loop"
    /\ UNCHANGED <<fdt, ecam_vars, entry_state, address, pin, mapped_interrupt, INTERRUPT_ROUTING, routing_before, lock,
                   handlers, panicked>>
    /\ UNCHANGED <<call_vars, device_vars, handler_vars>>

NewReturn ==
    /\ TaskRuns
    /\ tpc = "new_loop"
    /\ map_index > Len(fdt.interrupt_map)
    /\ tpc' = "ready"
    /\ UNCHANGED <<fdt, ecam_vars, entry_state, legacy_interrupt_remapping, INTERRUPT_ROUTING, routing_before, lock,
                   handlers, panicked>>
    /\ address' = PciAddressNew(0, 0, 0, 0)
    /\ pin' = 0
    /\ mapped_interrupt' = 0
    /\ UNCHANGED <<map_index, call_vars, device_vars, handler_vars>>

(***************************************************************************)
(* Event::new(): a fresh event, distinct from every event made before.     *)
(***************************************************************************)
EventNew(n) == n

MsiMessageNumber == 2

\* Arguments drivers pass: the functions and pins of the records, as decoded
\* under either mask, and a pin that no record describes.
Functions ==
    {DecodeAddress(r, m) : r \in Records, m \in Masks}

Pins == {1, 2}

\* The function of an MSI or MSI-X call, which the code only logs.
MessageFunction == PciAddressNew(0, 0, 3, 0)

\* The state a configure_* call finds: the tables, the registered handlers
\* and the enable bits of the capability it is given.
EntryState(op) ==
    [op |-> op,
     routing |-> INTERRUPT_ROUTING,
     legacy |-> legacy_interrupt_remapping,
     handlers |-> handlers,
     msi_enabled |-> MsiAtReset.enabled,
     msix_enabled |-> MsixAtReset.enabled]

(***************************************************************************)
(* configure_legacy                                                        *)
(***************************************************************************)
CallLegacy ==
    /\ TaskRuns
    /\ tpc = "ready"
    /\ next_event <= MaxCalls
    /\ \E f \in Functions, p \in Pins :
          call' = [op |-> "legacy", function |-> f, pin |-> p]
    /\ event' = EventNew(next_event)
    /\ next_event' = next_event + 1
    /\ tpc' = "legacy_get"
    /\ UNCHANGED <<fdt, ecam_vars, legacy_interrupt_remapping, INTERRUPT_ROUTING, routing_before, lock,
                   handlers, panicked, remapped_interrupt, returned>>
    /\ entry_state' = EntryState("legacy")
    /\ UNCHANGED <<new_locals, device_vars, handler_vars>>

\* Mutant: a missing key falls back to a fixed vector.
\* The lookup as entry(key).or_insert(vector): an absent key is added.
LegacyGetOrInsert ==
    /\ TaskRuns
    /\ tpc = "legacy_get"
    /\ LET got == BTreeGet(legacy_interrupt_remapping, <<call.function, call.pin>>)
       IN  /\ remapped_interrupt' = IF got.some THEN got.value ELSE MsiMessageNumber
           /\ legacy_interrupt_remapping' =
                  IF got.some THEN legacy_interrupt_remapping
                  ELSE BTreeInsert(legacy_interrupt_remapping,
                                   <<call.function, call.pin>>, MsiMessageNumber)
    /\ tpc' = "legacy_lock"
    /\ UNCHANGED <<fdt, ecam_vars, entry_state, INTERRUPT_ROUTING,
                   routing_before, lock, handlers, panicked, next_event, call,
                   event, returned>>
    /\ UNCHANGED <<new_locals, device_vars, handler_vars>>

LegacyGetOrDefault ==
    /\ TaskRuns
    /\ tpc = "legacy_get"
    /\ LET got == BTreeGet(legacy_interrupt_remapping, <<call.function, call.pin>>)
       IN  remapped_interrupt' = IF got.some THEN got.value ELSE MsiMessageNumber
    /\ tpc' = "legacy_lock"
    /\ UNCHANGED <<fdt, ecam_vars, entry_state, legacy_interrupt_remapping, INTERRUPT_ROUTING,
                   routing_before, lock, handlers, panicked, next_event, call,
                   event, returned>>
    /\ UNCHANGED <<new_locals, device_vars, handler_vars>>

LegacyGet ==
    /\ TaskRuns
    /\ tpc = "legacy_get"
    /\ LET got == BTreeGet(legacy_interrupt_remapping, <<call.function, call.pin>>)
       IN  IF got.some
           THEN /\ remapped_interrupt' = got.value
                /\ tpc' = "legacy_lock"
                /\ UNCHANGED panicked
           ELSE /\ panicked' = "PCI interrupt not in remapping!"
                /\ tpc' = "panic"
                /\ UNCHANGED remapped_interrupt
    /\ UNCHANGED <<fdt, ecam_vars, entry_state, legacy_interrupt_remapping, INTERRUPT_ROUTING, routing_before, lock,
                   handlers, next_event, call, event, returned>>
    /\ UNCHANGED <<new_locals, device_vars, handler_vars>>

LegacyLock ==
    /\ TaskRuns
    /\ tpc = "legacy_lock"
    /\ Acquire("task")
    /\ tpc' = "legacy_push"
    /\ UNCHANGED <<fdt, ecam_vars, entry_state, legacy_interrupt_remapping, INTERRUPT_ROUTING, routing_before, handlers,
                   panicked>>
    /\ UNCHANGED <<new_locals, call_vars, device_vars, handler_vars>>

LegacyPush ==
    /\ TaskRuns
    /\ tpc = "legacy_push"
    /\ IF BTreeGet(INTERRUPT_ROUTING, remapped_interrupt).some
       THEN /\ INTERRUPT_ROUTING' = VecPush(INTERRUPT_ROUTING, remapped_interrupt, event)
            /\ routing_before' = INTERRUPT_ROUTING
            /\ tpc' = "legacy_return"
            /\ UNCHANGED panicked
       ELSE /\ panicked' = "unwrap on None"
            /\ tpc' = "panic"
            /\ UNCHANGED <<INTERRUPT_ROUTING, routing_before>>
    /\ Release("task")
    /\ UNCHANGED <<fdt, ecam_vars, entry_state, legacy_interrupt_remapping, handlers>>
    /\ UNCHANGED <<new_locals, call_vars, device_vars, handler_vars>>

LegacyReturn ==
    /\ TaskRuns
    /\ tpc = "legacy_return"
    /\ returned' = Append(returned, event)
    /\ tpc' = "ready"
    /\ call' = [op |-> "none"]
    /\ event' = NoEvent
    /\ remapped_interrupt' = 0
    /\ entry_state' = NotInCall
    /\ UNCHANGED <<fdt, ecam_vars, legacy_interrupt_remapping, INTERRUPT_ROUTING,
                   routing_before, lock, handlers, panicked, next_event>>
    /\ UNCHANGED <<new_locals, device_vars, handler_vars>>

(***************************************************************************)
(* configure_msi                                                           *)
(***************************************************************************)
MessageAddress == 671088640     \* 0x28000000

CallMsi ==
    /\ TaskRuns
    /\ tpc = "ready"
    /\ next_event <= MaxCalls
    /\ call' = [op |-> "msi", function |-> MessageFunction]
    /\ event' = EventNew(next_event)
    /\ next_event' = next_event + 1
    /\ tpc' = "msi_lock"
    /\ UNCHANGED <<fdt, ecam_vars, legacy_interrupt_remapping, INTERRUPT_ROUTING, routing_before, lock,
                   handlers, panicked, remapped_interrupt, returned>>
    /\ msi' = MsiAtReset
    /\ entry_state' = EntryState("msi")
    /\ UNCHANGED <<new_locals, msix, table_base_phys, msix_table, handler_vars>>

MsiLock ==
    /\ TaskRuns
    /\ tpc = "msi_lock"
    /\ Acquire("task")
    /\ tpc' = "msi_insert"
    /\ UNCHANGED <<fdt, ecam_vars, entry_state, legacy_interrupt_remapping, INTERRUPT_ROUTING, routing_before, handlers,
                   panicked>>
    /\ UNCHANGED <<new_locals, call_vars, device_vars, handler_vars>>

MsiInsert ==
    /\ TaskRuns
    /\ tpc = "msi_insert"
    /\ INTERRUPT_ROUTING' = BTreeInsert(INTERRUPT_ROUTING, MsiMessageNumber, <<event>>)
    /\ routing_before' = INTERRUPT_ROUTING
    /\ Release("task")
    /\ tpc' = "msi_handle"
    /\ UNCHANGED <<fdt, ecam_vars, entry_state, legacy_interrupt_remapping, handlers, panicked>>
    /\ UNCHANGED <<new_locals, call_vars, device_vars, handler_vars>>

MsiHandleInterrupt ==
    /\ TaskRuns
    /\ tpc = "msi_handle"
    /\ handlers' = Append(handlers, [kind |-> "message", vector |-> as_u16(MsiMessageNumber)])
    /\ tpc' = "msi_set_message_info"
    /\ UNCHANGED <<fdt, ecam_vars, entry_state, legacy_interrupt_remapping, INTERRUPT_ROUTING, routing_before, lock, panicked>>
    /\ UNCHANGED <<new_locals, call_vars, device_vars, handler_vars>>

MsiSetMessageInfoSwapped ==
    /\ TaskRuns
    /\ tpc = "msi_set_message_info"
    /\ msi' = [msi EXCEPT !.message_address = MsiMessageNumber,
                          !.message_data = MessageAddress]
    /\ tpc' = "msi_set_enabled"
    /\ UNCHANGED <<fdt, ecam_vars, entry_state, legacy_interrupt_remapping,
                   INTERRUPT_ROUTING, routing_before, lock, handlers, panicked,
                   msix, table_base_phys, msix_table>>
    /\ UNCHANGED <<new_locals, call_vars, handler_vars>>

MsiSetMessageInfo ==
    /\ TaskRuns
    /\ tpc = "msi_set_message_info"
    /\ msi' = [msi EXCEPT !.message_address = MessageAddress,
                          !.message_data = MsiMessageNumber]
    /\ tpc' = "msi_set_enabled"
    /\ UNCHANGED <<fdt, ecam_vars, entry_state, legacy_interrupt_remapping, INTERRUPT_ROUTING, routing_before, lock,
                   handlers, panicked, msix, table_base_phys, msix_table>>
    /\ UNCHANGED <<new_locals, call_vars, handler_vars>>

MsiSetEnabled ==
    /\ TaskRuns
    /\ tpc = "msi_set_enabled"
    /\ msi' = [msi EXCEPT !.enabled = TRUE]
    /\ tpc' = "msi_return"
    /\ UNCHANGED <<fdt, ecam_vars, entry_state, legacy_interrupt_remapping, INTERRUPT_ROUTING, routing_before, lock,
                   handlers, panicked, msix, table_base_phys, msix_table>>
    /\ UNCHANGED <<new_locals, call_vars, handler_vars>>

MsiReturn ==
    /\ TaskRuns
    /\ tpc = "msi_return"
    /\ returned' = Append(returned, event)
    /\ tpc' = "ready"
    /\ call' = [op |-> "none"]
    /\ event' = NoEvent
    /\ remapped_interrupt' = 0
    /\ entry_state' = NotInCall
    /\ UNCHANGED <<fdt, ecam_vars, legacy_interrupt_remapping, INTERRUPT_ROUTING,
                   routing_before, lock, handlers, panicked, next_event>>
    /\ UNCHANGED <<new_locals, device_vars, handler_vars>>

(***************************************************************************)
(* configure_msix                                                          *)
(***************************************************************************)
MsixMessageNumber == 3

\* BAR addresses 0x40000000 and 0xFFFFF000, table offset 0x1000
Bars == {[kind |-> "Memory32", address |-> PhysAddress(262144, 0)],
         [kind |-> "Memory32", address |-> PhysAddress(1048575, 0)],
         [kind |-> "Memory64", address |-> PhysAddress(262144, 0)],
         [kind |-> "Io", address |-> PhysAddress(0, 0)]}

TableOffset == PhysAddress(1, 0)

CallMsix ==
    /\ TaskRuns
    /\ tpc = "ready"
    /\ next_event <= MaxCalls
    /\ \E bar \in Bars :
          call' = [op |-> "msix", function |-> MessageFunction, table_bar |-> bar,
                   table_offset |-> TableOffset]
    /\ event' = EventNew(next_event)
    /\ next_event' = next_event + 1
    /\ tpc' = "msix_lock"
    /\ UNCHANGED <<fdt, ecam_vars, legacy_interrupt_remapping, INTERRUPT_ROUTING, routing_before, lock,
                   handlers, panicked, remapped_interrupt, returned>>
    /\ msix' = MsixAtReset
    /\ table_base_phys' = PhysAddress(0, 0)
    /\ msix_table' = << >>
    /\ entry_state' = EntryState("msix")
    /\ UNCHANGED <<new_locals, msi, handler_vars>>

MsixLock ==
    /\ TaskRuns
    /\ tpc = "msix_lock"
    /\ Acquire("task")
    /\ tpc' = "msix_insert"
    /\ UNCHANGED <<fdt, ecam_vars, entry_state, legacy_interrupt_remapping, INTERRUPT_ROUTING, routing_before, handlers,
                   panicked>>
    /\ UNCHANGED <<new_locals, call_vars, device_vars, handler_vars>>

MsixInsert ==
    /\ TaskRuns
    /\ tpc = "msix_insert"
    /\ INTERRUPT_ROUTING' = BTreeInsert(INTERRUPT_ROUTING, MsixMessageNumber, <<event>>)
    /\ routing_before' = INTERRUPT_ROUTING
    /\ Release("task")
    /\ tpc' = "msix_handle"
    /\ UNCHANGED <<fdt, ecam_vars, entry_state, legacy_interrupt_remapping, handlers, panicked>>
    /\ UNCHANGED <<new_locals, call_vars, device_vars, handler_vars>>

MsixHandleInterrupt ==
    /\ TaskRuns
    /\ tpc = "msix_handle"
    /\ handlers' = Append(handlers, [kind |-> "message", vector |-> as_u16(MsixMessageNumber)])
    /\ tpc' = "msix_set_enabled"
    /\ UNCHANGED <<fdt, ecam_vars, entry_state, legacy_interrupt_remapping, INTERRUPT_ROUTING, routing_before, lock, panicked>>
    /\ UNCHANGED <<new_locals, call_vars, device_vars, handler_vars>>

MsixSetEnabled ==
    /\ TaskRuns
    /\ tpc = "msix_set_enabled"
    /\ msix' = [msix EXCEPT !.enabled = TRUE]
    /\ tpc' = "msix_table_base"
    /\ UNCHANGED <<fdt, ecam_vars, entry_state, legacy_interrupt_remapping, INTERRUPT_ROUTING, routing_before, lock,
                   handlers, panicked, msi, table_base_phys, msix_table>>
    /\ UNCHANGED <<new_locals, call_vars, handler_vars>>

\* Every BAR kind taken as a memory BAR: no arm panics.
TableBaseOutcomesAnyBar(bar, table_offset) ==
    {[panic |-> "no", base |-> AddressAdd(bar.address, table_offset)]}

\* The outcomes of the match on table_bar: the table base, or a panic.
\* Memory32 adds two u32 and then widens: a sum of 2^32 or more panics in a
\* build with overflow checks and wraps in one without.  Memory64 widens to
\* usize and then adds.
TableBaseOutcomes(bar, table_offset) ==
    LET sum == AddressAdd(bar.address, table_offset)
    IN  IF bar.kind = "Memory32"
        THEN IF OverflowsU32(sum)
             THEN {[panic |-> "attempt to add with overflow", base |-> sum],
                   [panic |-> "no", base |-> WrappingU32(sum)]}
             ELSE {[panic |-> "no", base |-> sum]}
        ELSE IF bar.kind = "Memory64"
        THEN {[panic |-> "no", base |-> sum]}
        ELSE {[panic |-> "explicit panic", base |-> sum]}

MsixTableBase ==
    /\ TaskRuns
    /\ tpc = "msix_table_base"
    /\ \E outcome \in TableBaseOutcomes(call.table_bar, call.table_offset) :
          IF outcome.panic = "no"
          THEN /\ table_base_phys' = outcome.base
               /\ tpc' = "msix_write"
               /\ UNCHANGED panicked
          ELSE /\ panicked' = outcome.panic
               /\ tpc' = "panic"
               /\ UNCHANGED table_base_phys
    /\ UNCHANGED <<fdt, ecam_vars, entry_state, legacy_interrupt_remapping,
                   INTERRUPT_ROUTING, routing_before, lock, handlers, msi, msix,
                   msix_table>>
    /\ UNCHANGED <<new_locals, call_vars, handler_vars>>

\* The stores as `add` on a *mut u128 would place them, 16 bytes apart.
EntryStoresWordOffsets ==
    <<[offset |-> 0, value |-> MessageAddress],
      [offset |-> 16, value |-> 0],
      [offset |-> 32, value |-> MsixMessageNumber],
      [offset |-> 48, value |-> 0]>>

\* The four stores of lines 171..174, in program order.
EntryStores ==
    <<[offset |-> 0, value |-> MessageAddress],
      [offset |-> 4, value |-> 0],
      [offset |-> 8, value |-> MsixMessageNumber],
      [offset |-> 12, value |-> 0]>>

MsixWrite ==
    /\ TaskRuns
    /\ tpc = "msix_write"
    /\ LET store == EntryStores[Len(msix_table) + 1]
       IN  msix_table' = Append(msix_table,
               [address |-> AddressAdd(table_base_phys, PhysAddress(0, store.offset)),
                value |-> store.value])
    /\ tpc' = IF Len(msix_table) + 1 = Len(EntryStores) THEN "msix_return"
              ELSE "msix_write"
    /\ UNCHANGED <<fdt, ecam_vars, entry_state, legacy_interrupt_remapping, INTERRUPT_ROUTING, routing_before, lock,
                   handlers, panicked, msi, msix, table_base_phys>>
    /\ UNCHANGED <<new_locals, call_vars, handler_vars>>

MsixReturn ==
    /\ TaskRuns
    /\ tpc = "msix_return"
    /\ returned' = Append(returned, event)
    /\ tpc' = "ready"
    /\ call' = [op |-> "none"]
    /\ event' = NoEvent
    /\ remapped_interrupt' = 0
    /\ entry_state' = NotInCall
    /\ UNCHANGED <<fdt, ecam_vars, legacy_interrupt_remapping, INTERRUPT_ROUTING,
                   routing_before, lock, handlers, panicked, next_event>>
    /\ table_base_phys' = PhysAddress(0, 0)
    /\ msix_table' = << >>
    /\ UNCHANGED <<new_locals, msi, msix, handler_vars>>

(***************************************************************************)
(* pci_interrupt_handler(number: u16)                                      *)
(***************************************************************************)
Numbers == {2, 5, 42}

Harts == {"same", "other"}

task_vars == <<tpc, legacy_interrupt_remapping, handlers, panicked,
               new_locals, call_vars, device_vars, entry_state, ecam_vars>>

HandlerEnter ==
    /\ hpc = "idle"
    /\ \E n \in Numbers, h \in Harts :
          /\ number' = n
          /\ hart' = h
    /\ hpc' = "lock"
    /\ UNCHANGED <<fdt, INTERRUPT_ROUTING, routing_before, lock, task_vars, events, event_index,
                   signalled>>

HandlerLock ==
    /\ hpc = "lock"
    /\ Acquire("irq")
    /\ hpc' = "get"
    /\ UNCHANGED <<fdt, INTERRUPT_ROUTING, routing_before, task_vars, hart, number, events,
                   event_index, signalled>>

\* Mutant: the lookup creates the entry it does not find.
HandlerGetOrInsert ==
    /\ hpc = "get"
    /\ events' = BTreeGet(INTERRUPT_ROUTING, number).value
    /\ INTERRUPT_ROUTING' =
           IF BTreeGet(INTERRUPT_ROUTING, number).some THEN INTERRUPT_ROUTING
           ELSE BTreeInsert(INTERRUPT_ROUTING, number, << >>)
    /\ event_index' = 1
    /\ hpc' = "for"
    /\ UNCHANGED <<fdt, routing_before, lock, task_vars, hart, number, signalled>>

HandlerGet ==
    /\ hpc = "get"
    /\ events' \in (IF "task" \in lock
                    THEN RacingRead(INTERRUPT_ROUTING, number)
                    ELSE {BTreeGet(INTERRUPT_ROUTING, number).value})
    /\ event_index' = 1
    /\ hpc' = "for"
    /\ UNCHANGED <<fdt, INTERRUPT_ROUTING, routing_before, lock, task_vars, hart, number, signalled>>

\* Mutant: the loop stops after the first event.
HandlerSignalFirstOnly ==
    /\ hpc = "for"
    /\ event_index <= Len(events)
    /\ signalled' = Append(signalled, events[event_index])
    /\ event_index' = Len(events) + 1
    /\ UNCHANGED <<fdt, INTERRUPT_ROUTING, routing_before, lock, task_vars, hpc,
                   hart, number, events>>

HandlerSignal ==
    /\ hpc = "for"
    /\ event_index <= Len(events)
    /\ signalled' = Append(signalled, events[event_index])
    /\ event_index' = event_index + 1
    /\ UNCHANGED <<fdt, INTERRUPT_ROUTING, routing_before, lock, task_vars, hpc, hart, number, events>>

HandlerReturn ==
    /\ hpc = "for"
    /\ event_index > Len(events)
    /\ Release("irq")
    /\ hpc' = "idle"
    /\ hart' = "other"
    /\ number' = 0
    /\ events' = << >>
    /\ event_index' = 1
    /\ signalled' = << >>
    /\ UNCHANGED <<fdt, INTERRUPT_ROUTING, routing_before, task_vars>>

(***************************************************************************)
(* impl ConfigRegionAccess for PciAccess: read and write of one u32        *)
(* register.  Addresses are byte offsets from self.start.                  *)
(***************************************************************************)
\* bus << 16 in place of bus << 20
AddressForBusShift16(pci_address) ==
    BitOr(BitOr(pci_address.bus * (2 ^ 16), pci_address.device * (2 ^ 15)),
          pci_address.function * (2 ^ 12))

AddressFor(pci_address) ==
    BitOr(BitOr(pci_address.bus * (2 ^ 20), pci_address.device * (2 ^ 15)),
          pci_address.function * (2 ^ 12))

EcamFunctions ==
    {PciAddressNew(0, b, d, f) : b \in {0, 1, 255}, d \in {0, 31}, f \in {0, 7}}

\* register offsets (u16): first and last register of the 4 KiB slice, and
\* the first offset past it
RegisterOffsets == {0, 4092, 4096}

Access(op, pci_address, offset, value) ==
    [op |-> op, function |-> pci_address, offset |-> offset,
     slice |-> AddressFor(pci_address),
     address |-> AddressFor(pci_address) + offset,
     value |-> value]

ConfigRead ==
    /\ tpc = "ready"
    /\ Len(accesses) < MaxAccesses
    /\ \E pci_address \in EcamFunctions, offset \in RegisterOffsets :
          accesses' = Append(accesses, Access("read", pci_address, offset, 0))
    /\ UNCHANGED <<fdt, INTERRUPT_ROUTING, routing_before, lock, size, entry_state,
                   tpc, legacy_interrupt_remapping, handlers, panicked>>
    /\ UNCHANGED <<new_locals, call_vars, device_vars, handler_vars>>

ConfigWrite ==
    /\ tpc = "ready"
    /\ Len(accesses) < MaxAccesses
    /\ \E pci_address \in EcamFunctions, offset \in RegisterOffsets :
          accesses' = Append(accesses, Access("write", pci_address, offset, 1))
    /\ UNCHANGED <<fdt, INTERRUPT_ROUTING, routing_before, lock, size, entry_state,
                   tpc, legacy_interrupt_remapping, handlers, panicked>>
    /\ UNCHANGED <<new_locals, call_vars, device_vars, handler_vars>>

Next ==
    \/ NewFindNode \/ NewInterruptMap \/ NewInterruptMapMask
    \/ NewLoop \/ NewLock \/ NewInsert \/ NewRemap \/ NewReturn
    \/ CallLegacy \/ LegacyGet \/ LegacyLock \/ LegacyPush \/ LegacyReturn
    \/ CallMsi \/ MsiLock \/ MsiInsert \/ MsiHandleInterrupt
    \/ MsiSetMessageInfo \/ MsiSetEnabled \/ MsiReturn
    \/ CallMsix \/ MsixLock \/ MsixInsert \/ MsixHandleInterrupt
    \/ MsixSetEnabled \/ MsixTableBase \/ MsixWrite \/ MsixReturn
    \/ HandlerEnter \/ HandlerLock \/ HandlerGet \/ HandlerSignal \/ HandlerReturn

Spec == Init /\ [][Next]_vars

\* The configuration window: PciAccess::new on one interrupt map and a
\* window size from the reg property, then register accesses.
InitEcam ==
    /\ fdt = Fdt({"pci-host-ecam-generic"}, TRUE, TRUE, <<RecordA>>, AnyMask)
    /\ tpc = "new_find"
    /\ map_index = 1
    /\ address = PciAddressNew(0, 0, 0, 0)
    /\ pin = 0
    /\ mapped_interrupt = 0
    /\ legacy_interrupt_remapping = EmptyMap
    /\ INTERRUPT_ROUTING = EmptyMap
    /\ routing_before = EmptyMap
    /\ lock = {}
    /\ handlers = << >>
    /\ next_event = 1
    /\ call = [op |-> "none"]
    /\ event = NoEvent
    /\ remapped_interrupt = 0
    /\ returned = << >>
    /\ panicked = "no"
    /\ msi = MsiAtReset
    /\ msix = MsixAtReset
    /\ table_base_phys = PhysAddress(0, 0)
    /\ msix_table = << >>
    /\ hpc = "idle"
    /\ hart = "other"
    /\ number = 0
    /\ events = << >>
    /\ event_index = 1
    /\ signalled = << >>
    /\ entry_state = NotInCall
    /\ size \in EcamSizes
    /\ accesses = << >>

NextEcam ==
    \/ NewFindNode \/ NewInterruptMap \/ NewInterruptMapMask
    \/ NewLoop \/ NewLock \/ NewInsert \/ NewRemap \/ NewReturn
    \/ ConfigRead \/ ConfigWrite

SpecEcam == InitEcam /\ [][NextEcam]_vars

TypeOK ==
    /\ lock \subseteq {"task", "irq"}
    /\ hpc \in {"idle", "lock", "get", "for"}
    /\ next_event \in 1..(MaxCalls + 1)

(***************************************************************************)
(* Vocabulary of the properties.                                           *)
(***************************************************************************)
Range(s) == {s[i] : i \in DOMAIN s}

\* The events registered under a vector, none if the vector is no key.
Entry(m, v) == IF v \in DOMAIN m THEN m[v] ELSE << >>

Count(s, e) == Cardinality({i \in DOMAIN s : s[i] = e})

Registered == UNION {Range(INTERRUPT_ROUTING[v]) : v \in DOMAIN INTERRUPT_ROUTING}

NewHasReturned ==
    tpc \notin {"new_find", "new_interrupt_map", "new_interrupt_map_mask",
                "new_loop", "new_lock", "new_insert", "new_remap", "panic"}
    \/ (tpc = "panic" /\ call.op # "none")

\* new has returned and no driver has called yet
NewJustReturned == tpc = "ready" /\ next_event = 1

LegacyKey == <<call.function, call.pin>>

\* C1: configure_legacy on a key of the legacy table never fails (neither
\* the expect on the table lookup nor the unwrap on the routing entry
\* fires), and when it is about to return, its event is none of the events
\* returned by earlier configure_* calls and is registered in the routing
\* table under the vector the key resolves to.
C1_ConfigureLegacySucceeds ==
    /\ panicked # "unwrap on None"
    /\ panicked = "PCI interrupt not in remapping!" =>
           LegacyKey \notin DOMAIN legacy_interrupt_remapping
    /\ tpc = "legacy_return" =>
           /\ LegacyKey \in DOMAIN legacy_interrupt_remapping
           /\ event \notin Range(returned)
           /\ event # NoEvent
           /\ event \in Range(Entry(INTERRUPT_ROUTING,
                                    legacy_interrupt_remapping[LegacyKey]))

\* A second configure call, a legacy one, is about to return its event.
C1_Witness ==
    /\ tpc = "legacy_return"
    /\ Len(returned) = 1
    /\ event \in Range(Entry(INTERRUPT_ROUTING, legacy_interrupt_remapping[LegacyKey]))

\* C2: while the handler iterates it has signalled exactly the events of
\* the entry of its vector up to its position, and when the loop is over
\* every event registered under that vector has been signalled exactly once
\* and no other event has been signalled at all.
C2_DispatchSignalsExactlyTheEntry ==
    hpc = "for" =>
        /\ signalled = SubSeq(Entry(INTERRUPT_ROUTING, number), 1, event_index - 1)
        /\ event_index > Len(events) =>
               \A e \in 1..MaxCalls + 1 :
                   Count(signalled, e) =
                       IF e \in Range(Entry(INTERRUPT_ROUTING, number)) THEN 1 ELSE 0

\* A dispatch has finished signalling two waiters that share one vector.
C2_Witness ==
    /\ hpc = "for"
    /\ event_index > Len(events)
    /\ Len(signalled) = 2
    /\ signalled[1] # signalled[2]

\* C3: an event registered under a vector stays registered under that
\* vector in every later state.
C3_RegisteredStaysRegistered ==
    [][\A v \in DOMAIN INTERRUPT_ROUTING :
           \A e \in Range(INTERRUPT_ROUTING[v]) :
               e \in Range(Entry(INTERRUPT_ROUTING', v))]_vars

\* C4: every step the handler takes while it dispatches a vector that is
\* absent from the routing table, or present with no events, leaves the
\* routing table and the legacy table as they were, signals nothing and
\* panics nowhere, and the step after the lookup is the handler's return.
C4_EmptyDispatchIsNoOp ==
    [][(/\ hpc \in {"get", "for"}
        /\ Entry(INTERRUPT_ROUTING, number) = << >>
        /\ handler_vars' # handler_vars)
       => /\ INTERRUPT_ROUTING' = INTERRUPT_ROUTING
          /\ legacy_interrupt_remapping' = legacy_interrupt_remapping
          /\ signalled' = << >>
          /\ panicked' = panicked
          /\ hpc = "for" => hpc' = "idle"]_vars

\* The handler has looked up a vector that is not a key of the routing table
\* while another vector has a waiter.
C4_Witness ==
    /\ hpc = "for"
    /\ number \notin DOMAIN INTERRUPT_ROUTING
    /\ events = << >>
    /\ Registered # {}

\* C5: no step removes a key from the routing table.
C5_RoutingKeysOnlyGrow ==
    [][DOMAIN INTERRUPT_ROUTING \subseteq DOMAIN INTERRUPT_ROUTING']_vars

\* The routing table holds a legacy vector and, added later, the MSI and
\* MSI-X vectors.
C5_Witness ==
    /\ tpc = "ready"
    /\ Cardinality(DOMAIN INTERRUPT_ROUTING) >= 3
    /\ {MsiMessageNumber, MsixMessageNumber} \subseteq DOMAIN INTERRUPT_ROUTING
    /\ Len(returned) = 2

\* C6: the handler never waits for the lock in a state in which it cannot
\* get it: it never spins on the lock as an interrupt taken on the hart of
\* the task that holds the lock, which cannot run again before the handler
\* returns.
C6_HandlerNeverWaitsForever ==
    ~(hpc = "lock" /\ hart = "same" /\ "task" \in lock)

\* C7: what a dispatch got from the routing table, and so what it signals,
\* is the entry of its vector as it was before the latest mutation of the
\* table or as it is after it.
C7_DispatchSeesOldOrNewEntry ==
    hpc = "for" =>
        \/ events = Entry(routing_before, number)
        \/ events = Entry(INTERRUPT_ROUTING, number)

\* A dispatch on another hart iterates the entry of the vector under which
\* a configure_legacy call, waiting for the lock, is about to push.
C7_Witness ==
    /\ hpc = "for"
    /\ hart = "other"
    /\ tpc = "legacy_lock"
    /\ remapped_interrupt = number
    /\ events # << >>

\* C8: configure_legacy on a key absent from the legacy table goes from the
\* lookup straight to the panic, with the routing table and the returned
\* events as they were; once it has panicked, its event has not been
\* returned and is registered under no vector, and no configure_legacy
\* call gets past the lookup with an absent key.
C8_AbsentKeyIsFatal ==
    /\ [](/\ panicked = "PCI interrupt not in remapping!" =>
                /\ tpc = "panic"
                /\ call.op = "legacy"
                /\ event \notin Range(returned)
                /\ event \notin Registered
          /\ tpc \in {"legacy_lock", "legacy_push", "legacy_return"} =>
                LegacyKey \in DOMAIN legacy_interrupt_remapping)
    /\ [][(/\ tpc = "legacy_get"
           /\ LegacyKey \notin DOMAIN legacy_interrupt_remapping
           /\ tpc' # tpc)
          => /\ tpc' = "panic"
             /\ panicked' = "PCI interrupt not in remapping!"
             /\ INTERRUPT_ROUTING' = INTERRUPT_ROUTING
             /\ returned' = returned]_vars

\* A second configure call, a legacy one on an absent key, has panicked
\* while the event of the first call is registered.
C8_Witness ==
    /\ panicked = "PCI interrupt not in remapping!"
    /\ LegacyKey \notin DOMAIN legacy_interrupt_remapping
    /\ Registered = {1}
    /\ event = 2

(***************************************************************************)
(* C9: the key and the value the property gives for record i of the map,   *)
(* computed from the record's words.                                       *)
(***************************************************************************)
StatedFunction(i) ==
    LET masked == BitAnd(fdt.interrupt_map[i].child_unit_address_hi,
                         fdt.interrupt_map_mask.address_mask_hi)
    IN  [segment |-> 0,
         bus |-> (masked \div 65536) % 256,
         device |-> (masked \div 2048) % 32,
         function |-> (masked \div 256) % 8]

StatedPin(i) ==
    BitAnd(fdt.interrupt_map[i].child_interrupt_specifier,
           fdt.interrupt_map_mask.interrupt_mask)

StatedVector(i) == fdt.interrupt_map[i].parent_interrupt_specifier.hi

\* The one-record scenario: bus 0, device 3, function 0, pin 1, vector 0x2A.
ScenarioHolds ==
    (/\ NewJustReturned
     /\ fdt.interrupt_map = <<Mapping(6144, 1, 42, 4)>>)
    => /\ <<[segment |-> 0, bus |-> 0, device |-> 3, function |-> 0], 1>>
              \in DOMAIN legacy_interrupt_remapping
       /\ legacy_interrupt_remapping[
              <<[segment |-> 0, bus |-> 0, device |-> 3, function |-> 0], 1>>] = 42
       /\ 42 \in DOMAIN INTERRUPT_ROUTING
       /\ INTERRUPT_ROUTING[42] = << >>

\* C9 as stated: when new has returned, every record of the map has an
\* entry in the legacy table under (bus, device, function of the masked
\* child address; masked child interrupt specifier) whose value is the upper
\* half of the record's parent interrupt specifier; and the scenario holds.
C9_EveryRecordHasItsEntry ==
    /\ NewJustReturned =>
           \A i \in DOMAIN fdt.interrupt_map :
               /\ <<StatedFunction(i), StatedPin(i)>> \in DOMAIN legacy_interrupt_remapping
               /\ legacy_interrupt_remapping[<<StatedFunction(i), StatedPin(i)>>]
                      = StatedVector(i)
    /\ ScenarioHolds

AmendedKey(i) == <<StatedFunction(i), StatedPin(i) % 256>>

LastWithKey(i) ==
    CHOOSE j \in DOMAIN fdt.interrupt_map :
        /\ AmendedKey(j) = AmendedKey(i)
        /\ \A k \in DOMAIN fdt.interrupt_map :
               AmendedKey(k) = AmendedKey(i) => k <= j

\* C9 as amended: when new has returned, every record of the map has an
\* entry in the legacy table under (bus, device, function of the masked
\* child address; low 8 bits of the masked child interrupt specifier), whose
\* value is the upper half of the parent interrupt specifier of the last
\* record of the map with that key; the table has no other keys; and the
\* scenario holds.
C9_EveryRecordHasLastEntryOfItsKey ==
    /\ NewJustReturned =>
           /\ \A i \in DOMAIN fdt.interrupt_map :
                  /\ AmendedKey(i) \in DOMAIN legacy_interrupt_remapping
                  /\ legacy_interrupt_remapping[AmendedKey(i)]
                         = StatedVector(LastWithKey(i))
           /\ DOMAIN legacy_interrupt_remapping
                  = {AmendedKey(i) : i \in DOMAIN fdt.interrupt_map}
    /\ ScenarioHolds

\* new has returned for a map whose two records decode to one key and name
\* two vectors: the table holds the vector of the second.
C9_Witness ==
    /\ NewJustReturned
    /\ Len(fdt.interrupt_map) = 2
    /\ AmendedKey(1) = AmendedKey(2)
    /\ StatedVector(1) # StatedVector(2)
    /\ legacy_interrupt_remapping[AmendedKey(1)] = StatedVector(2)

\* C10: once new has returned, every vector that is a value of the legacy
\* table is a key of the routing table, and right after new (before any
\* configure_* call) the entry of each such vector is empty.
C10_LegacyVectorsAreRouted ==
    NewHasReturned =>
        /\ \A k \in DOMAIN legacy_interrupt_remapping :
               legacy_interrupt_remapping[k] \in DOMAIN INTERRUPT_ROUTING
        /\ NewJustReturned =>
               \A k \in DOMAIN legacy_interrupt_remapping :
                   Entry(INTERRUPT_ROUTING, legacy_interrupt_remapping[k]) = << >>

\* new has just returned with two keys resolved to two vectors.
C10_Witness ==
    /\ tpc = "ready"
    /\ next_event = 1
    /\ Cardinality(DOMAIN legacy_interrupt_remapping) = 2
    /\ Cardinality(DOMAIN INTERRUPT_ROUTING) = 2

(***************************************************************************)
(* Message-signalled configuration.                                        *)
(***************************************************************************)
\* The vectors under which event e is listed in the routing table.
VectorsOf(e) == {v \in DOMAIN INTERRUPT_ROUTING : e \in Range(INTERRUPT_ROUTING[v])}

HandlerRegisteredFor(v) ==
    \E i \in DOMAIN handlers : handlers[i] = [kind |-> "message", vector |-> v]

\* The values stored to the message-data word (offset 0x8) of table entry 0.
MsixDataStored ==
    {msix_table[i].value : i \in {j \in DOMAIN msix_table :
        msix_table[j].address = AddressAdd(table_base_phys, PhysAddress(0, 8))}}

\* C11: when configure_msi or configure_msix is about to return its event,
\* the event is registered under exactly one vector of the routing table,
\* the message data programmed into the device (the MSI capability's data
\* register, or the data word of MSI-X table entry 0) is that vector, and
\* pci_interrupt_handler has been registered with the interrupt controller
\* for that vector.
C11_MessageDataIsTheRegisteredVector ==
    /\ tpc = "msi_return" =>
           \E v \in VectorsOf(event) :
               /\ VectorsOf(event) = {v}
               /\ msi.message_data = v
               /\ HandlerRegisteredFor(v)
    /\ tpc = "msix_return" =>
           \E v \in VectorsOf(event) :
               /\ VectorsOf(event) = {v}
               /\ MsixDataStored = {v}
               /\ HandlerRegisteredFor(v)

\* configure_msi is about to return: data programmed, delivery enabled.
C11_Witness ==
    /\ tpc = "msi_return"
    /\ msi.enabled
    /\ msi.message_data = MsiMessageNumber
    /\ event \in Range(Entry(INTERRUPT_ROUTING, MsiMessageNumber))

MsiProgrammed ==
    msi.message_address = MessageAddress /\ msi.message_data = MsiMessageNumber

MsixProgrammed == Len(msix_table) = 4

\* C12: in every state of a configure_msi or configure_msix call in which
\* the new event is in the routing table and the message address and data
\* are not yet fully programmed, delivery is not enabled on the function.
C12_EnabledOnlyAfterProgramming ==
    /\ (call.op = "msi" /\ event \in Registered /\ ~MsiProgrammed) => ~msi.enabled
    /\ (call.op = "msix" /\ event \in Registered /\ ~MsixProgrammed) => ~msix.enabled

\* C13: when configure_msix is about to return, the stores made to the
\* MSI-X table are exactly four, at offsets 0x0, 0x4, 0x8 and 0xC of the
\* table base in that order (all inside entry 0), with the values message
\* address, 0, the vector of the event, 0.
C13_OneTableEntryInOrder ==
    tpc = "msix_return" =>
        /\ Len(msix_table) = 4
        /\ \A i \in 1..4 :
               msix_table[i].address =
                   AddressAdd(table_base_phys, PhysAddress(0, 4 * (i - 1)))
        /\ msix_table[1].value = MessageAddress
        /\ msix_table[2].value = 0
        /\ VectorsOf(event) = {msix_table[3].value}
        /\ msix_table[4].value = 0

\* configure_msix is about to return after the fourth store.
C13_Witness ==
    /\ tpc = "msix_return"
    /\ Len(msix_table) = 4
    /\ msix_table[4].address = AddressAdd(table_base_phys, PhysAddress(0, 12))

\* C14: configure_msix neither fails on the addition nor uses a table base
\* other than the exact sum of the BAR address and the table offset.
C14_TableBaseIsExactSum ==
    /\ panicked # "attempt to add with overflow"
    /\ tpc \in {"msix_write", "msix_return"} =>
           table_base_phys = AddressAdd(call.table_bar.address, call.table_offset)

(***************************************************************************)
(* The configuration window.                                               *)
(***************************************************************************)
SliceSize == 4096

\* C15: two accesses to different (bus, device, function) triples get
\* different offsets from address_for, and the 4 KiB slices that start at
\* those offsets do not overlap.
C15_SlicesAreUniqueAndDisjoint ==
    \A i, j \in DOMAIN accesses :
        accesses[i].function # accesses[j].function =>
            /\ accesses[i].slice # accesses[j].slice
            /\ \/ accesses[i].slice + SliceSize <= accesses[j].slice
               \/ accesses[j].slice + SliceSize <= accesses[i].slice

\* Accesses to bus 1 device 31 and to bus 0 device 31: bits 16..19 of the
\* device field lie just below the bus field.
C15_Witness ==
    \E i, j \in DOMAIN accesses :
        /\ accesses[i].function = PciAddressNew(0, 1, 31, 7)
        /\ accesses[j].function = PciAddressNew(0, 0, 31, 7)
        /\ accesses[i].slice = accesses[j].slice + 1048576

\* C16: every access made by read or write covers four bytes inside the
\* window [start, start + size) and inside the 4 KiB slice of its function.
C16_AccessInsideWindowAndSlice ==
    \A i \in DOMAIN accesses :
        /\ 0 <= accesses[i].address
        /\ accesses[i].address + 4 <= size
        /\ AddressFor(accesses[i].function) <= accesses[i].address
        /\ accesses[i].address + 4 <= AddressFor(accesses[i].function) + SliceSize

(***************************************************************************)
(* Failures and frame of the configure_* calls.                            *)
(***************************************************************************)
MemoryBar(bar) == bar.kind \in {"Memory32", "Memory64"}

\* C17: configure_msix with a table BAR that is no memory BAR goes from the
\* match on the BAR straight to the panic; it never reaches the table
\* stores or the return, so no store is made to the MSI-X table and its
\* event is not returned.
C17_UnsupportedBarIsFatal ==
    /\ [](/\ panicked = "explicit panic" =>
                /\ tpc = "panic"
                /\ call.op = "msix"
                /\ ~MemoryBar(call.table_bar)
                /\ event \notin Range(returned)
                /\ msix_table = << >>
          /\ (call.op = "msix" /\ ~MemoryBar(call.table_bar)) =>
                /\ tpc \notin {"msix_write", "msix_return"}
                /\ msix_table = << >>
                /\ event \notin Range(returned))
    /\ [][(/\ tpc = "msix_table_base"
           /\ ~MemoryBar(call.table_bar)
           /\ tpc' # tpc)
          => /\ tpc' = "panic"
             /\ panicked' = "explicit panic"
             /\ msix_table' = << >>
             /\ returned' = returned]_vars

\* configure_msix on an I/O BAR has panicked.
C17_Witness ==
    /\ panicked = "explicit panic"
    /\ call.op = "msix"
    /\ call.table_bar.kind = "Io"
    /\ msix_table = << >>

LegacyVectors == {legacy_interrupt_remapping[k] : k \in DOMAIN legacy_interrupt_remapping}

WiredRegistrations(v) ==
    {i \in DOMAIN handlers : handlers[i].kind = "wired" /\ handlers[i].vector.hi = v}

\* C18: once new has returned, pci_interrupt_handler has been registered
\* with the interrupt controller exactly once for each vector of the legacy
\* table.
C18_OneRegistrationPerLegacyVector ==
    NewHasReturned =>
        \A v \in LegacyVectors : Cardinality(WiredRegistrations(v)) = 1

\* The routing table of the call's entry with event e appended under v.
WithEventAdded(routing, v, e) ==
    [w \in DOMAIN routing \cup {v} |->
        IF w = v THEN Append(Entry(routing, v), e) ELSE routing[w]]

\* C19: when a configure_* call is about to return, the routing table is
\* the one the call found with its new event appended under one vector
\* (other vectors as they were, the earlier events of that vector still
\* listed), and the legacy table is the one the call found.
C19_CallAddsOneEventAtOneVector ==
    tpc \in {"legacy_return", "msi_return", "msix_return"} =>
        /\ legacy_interrupt_remapping = entry_state.legacy
        /\ \E v \in DOMAIN INTERRUPT_ROUTING :
               INTERRUPT_ROUTING = WithEventAdded(entry_state.routing, v, event)

MessageVectors(h) == {h[i].vector : i \in {j \in DOMAIN h : h[j].kind = "message"}}

\* C20: after configure_msix has failed on an unsupported BAR, the routing
\* table, the vectors with a registered handler and the MSI-X enable bit
\* are the ones the call found.
C20_FailedMsixLeavesNoTrace ==
    panicked = "explicit panic" =>
        /\ INTERRUPT_ROUTING = entry_state.routing
        /\ MessageVectors(handlers) = MessageVectors(entry_state.handlers)
        /\ msix.enabled = entry_state.msix_enabled

(***************************************************************************)
(* The legacy table after new, and new on a defective device tree.         *)
(***************************************************************************)
\* The vectors of the records of the interrupt map that decode to key k.
VectorsOfRecordsWithKey(k) ==
    {StatedVector(i) : i \in {j \in DOMAIN fdt.interrupt_map : AmendedKey(j) = k}}

\* C21: when new has returned, each key of the legacy table has one vector,
\* which is the vector of a record that decodes to that key (also when
\* several records decode to it); and from then on no step of a
\* configure_* call or of the interrupt handler changes the legacy table.
C21_LegacyTableIsFixedAfterNew ==
    /\ [](NewJustReturned =>
             \A k \in DOMAIN legacy_interrupt_remapping :
                 legacy_interrupt_remapping[k] \in VectorsOfRecordsWithKey(k))
    /\ [][NewHasReturned =>
             legacy_interrupt_remapping' = legacy_interrupt_remapping]_vars

\* Two records with different vectors decoded to one key, a configure_*
\* call has returned, another one has failed and the handler has run.
C21_Witness ==
    /\ Len(fdt.interrupt_map) = 2
    /\ Cardinality(DOMAIN legacy_interrupt_remapping) = 1
    /\ StatedVector(1) # StatedVector(2)
    /\ Len(returned) = 1
    /\ panicked = "PCI interrupt not in remapping!"
    /\ signalled # << >>

\* The tree has a node with a recognised PCI host compatible string.
HasPciHostNode == fdt.compatible \cap PciHostTypes # {}

\* C22: on a tree without a PCI host node new goes from the node search to
\* the return of None, with no handler registered and nothing in the
\* routing table; on a tree whose PCI host node lacks interrupt-map or
\* interrupt-map-mask new panics and no accessor is returned (no
\* configure_* call is ever made).
C22_DefectiveTreeGivesNoAccessor ==
    /\ [](/\ ~HasPciHostNode =>
                /\ tpc \in {"new_find", "returned_none"}
                /\ handlers = << >>
                /\ INTERRUPT_ROUTING = EmptyMap
                /\ panicked = "no"
          /\ (HasPciHostNode
                /\ ~(fdt.has_interrupt_map /\ fdt.has_interrupt_map_mask)) =>
                /\ tpc \in {"new_find", "new_interrupt_map",
                            "new_interrupt_map_mask", "panic"}
                /\ next_event = 1
                /\ returned = << >>
          /\ tpc = "returned_none" => ~HasPciHostNode)
    /\ [][(/\ tpc \in {"new_interrupt_map", "new_interrupt_map_mask"}
           /\ ~(fdt.has_interrupt_map /\ fdt.has_interrupt_map_mask)
           /\ tpc' = "new_loop")
          => FALSE]_vars

\* new has returned None.
C22_Witness ==
    /\ tpc = "returned_none"
    /\ ~HasPciHostNode
    /\ handlers = << >>

\* new has panicked on the missing interrupt-map-mask of a PCI host node.
C22_WitnessFatal ==
    /\ tpc = "panic"
    /\ panicked = "unwrap on None: interrupt_map_mask"
    /\ fdt.has_interrupt_map

====
